---- MODULE Spec2Model ----
(***************************************************************************)
(* A model of lib/colour_system.py: the ColourSystem class, its class      *)
(* tables, its constructor and its conversion methods.                     *)
(*                                                                         *)
(* Numbers.  A NumPy float is modelled as an extended rational <<n, d>>:   *)
(*   d > 0, gcd(|n|, d) = 1   the finite value n/d                         *)
(*   <<1, 0>>, <<-1, 0>>      +inf and -inf                                *)
(*   <<0, 0>>                 nan                                          *)
(* with IEEE-754's rules for the non-finite values (x/0, inf-inf, 0*inf,   *)
(* comparisons with nan).  Finite arithmetic is exact: rounding and the    *)
(* sign of zero are not modelled.                                          *)
(*                                                                         *)
(* Arrays.  NumPy arrays are mutable objects held by reference, so the     *)
(* model keeps a heap of array objects and the instances hold addresses.   *)
(*                                                                         *)
(* A bound variable of a one-element set ("\E v \in {e}", "{f(v) : v \in   *)
(* {e}}") names the value of e, so that e is evaluated once.               *)
(***************************************************************************)
EXTENDS Integers, Sequences, FiniteSets, TLC

VARIABLES heap, systems, ret, outcome, last

vars == <<heap, systems, ret, outcome, last>>

----------------------------------------------------------------------------
(* Extended rational arithmetic (the float64 operations NumPy applies).    *)

NaN == <<0, 0>>
PInf == <<1, 0>>
NInf == <<-1, 0>>

Abs(n) == IF n < 0 THEN -n ELSE n

Sgn(n) == IF n < 0 THEN -1 ELSE IF n > 0 THEN 1 ELSE 0

RECURSIVE GCD(_, _)
GCD(a, b) == IF b = 0 THEN a ELSE GCD(b, a % b)

Norm(n, d) ==
    LET s == IF d < 0 THEN -1 ELSE 1
        g == GCD(Abs(n), Abs(d))
    IN  <<(s * n) \div g, (s * d) \div g>>

Q(n, d) == Norm(n, d)

Zero == <<0, 1>>
One == <<1, 1>>

IsNaN(x) == x = NaN
IsFinite(x) == x[2] # 0
IsInf(x) == x[2] = 0 /\ x[1] # 0

FNeg(x) == <<-x[1], x[2]>>

FAdd(x, y) ==
    IF IsNaN(x) \/ IsNaN(y) THEN NaN
    ELSE IF IsInf(x) THEN (IF IsInf(y) /\ y # x THEN NaN ELSE x)
    ELSE IF IsInf(y) THEN y
    ELSE LET g == GCD(x[2], y[2])
             l == (x[2] \div g) * y[2]
         IN  Norm(x[1] * (l \div x[2]) + y[1] * (l \div y[2]), l)

FSub(x, y) == FAdd(x, FNeg(y))

FMul(x, y) ==
    IF IsNaN(x) \/ IsNaN(y) THEN NaN
    ELSE IF IsInf(x) \/ IsInf(y)
         THEN (IF x[1] = 0 \/ y[1] = 0 THEN NaN
               ELSE <<Sgn(x[1]) * Sgn(y[1]), 0>>)
    ELSE LET g1 == GCD(Abs(x[1]), y[2])
             g2 == GCD(Abs(y[1]), x[2])
         IN  <<(x[1] \div g1) * (y[1] \div g2), (x[2] \div g2) * (y[2] \div g1)>>

FDiv(x, y) ==
    IF IsNaN(x) \/ IsNaN(y) THEN NaN
    ELSE IF IsInf(y) THEN (IF IsInf(x) THEN NaN ELSE Zero)
    ELSE IF y[1] = 0 THEN (IF x[1] = 0 THEN NaN ELSE <<Sgn(x[1]), 0>>)
    ELSE IF IsInf(x) THEN <<Sgn(x[1]) * Sgn(y[1]), 0>>
    ELSE FMul(x, Norm(y[2] * Sgn(y[1]), Abs(y[1])))

\* n1/d1 < n2/d2 for finite values, by comparing integer parts and then the
\* reciprocals of the fractional parts (no cross product is formed).
RECURSIVE RatLess(_, _, _, _)
RatLess(n1, d1, n2, d2) ==
    LET q1 == n1 \div d1
        q2 == n2 \div d2
        r1 == n1 % d1
        r2 == n2 % d2
    IN  IF q1 # q2 THEN q1 < q2
        ELSE IF r2 = 0 THEN FALSE
        ELSE IF r1 = 0 THEN TRUE
        ELSE RatLess(d2, r2, d1, r1)

(* x < y as NumPy compares: False whenever either side is nan. *)
FLt(x, y) ==
    IF IsNaN(x) \/ IsNaN(y) THEN FALSE
    ELSE IF x = y THEN FALSE
    ELSE IF IsInf(x) THEN x = NInf
    ELSE IF IsInf(y) THEN y = PInf
    ELSE RatLess(x[1], x[2], y[1], y[2])

FLe(x, y) == ~IsNaN(x) /\ ~IsNaN(y) /\ (x = y \/ FLt(x, y))

(* np.min / np.max of a 3-vector: nan as soon as one component is nan. *)
VMin(v) ==
    IF \E i \in 1..3 : IsNaN(v[i]) THEN NaN
    ELSE CHOOSE m \in {v[1], v[2], v[3]} : \A i \in 1..3 : FLe(m, v[i])

VMax(v) ==
    IF \E i \in 1..3 : IsNaN(v[i]) THEN NaN
    ELSE CHOOSE m \in {v[1], v[2], v[3]} : \A i \in 1..3 : FLe(v[i], m)

VecFinite(v) == \A i \in 1..3 : IsFinite(v[i])

ZeroVec == <<Zero, Zero, Zero>>

(* ndarray.dot of a 3x3 matrix (a tuple of rows) and a 3-vector. *)
Dot(A, v) ==
    [i \in 1..3 |->
        FAdd(FAdd(FMul(A[i][1], v[1]), FMul(A[i][2], v[2])), FMul(A[i][3], v[3]))]

----------------------------------------------------------------------------
(* ColourSystem.__xyz_from_xy__: the vector (x, y, 1-x-y). *)
xyz_from_xy(x, y) == <<x, y, FSub(FSub(One, x), y)>>

(* np.vstack((red, green, blue)) without the transposition: the rows are   *)
(* the primaries.                                                          *)
ChromaticityMatrix_rows(red, green, blue) == <<red, green, blue>>

(* np.vstack((red, green, blue)).T : the columns are the primaries. *)
ChromaticityMatrix(red, green, blue) ==
    [i \in 1..3 |-> <<red[i], green[i], blue[i]>>]

Det2(a, b, c, d) == FSub(FMul(a, d), FMul(b, c))

Det3(A) ==
    FAdd(FSub(FMul(A[1][1], Det2(A[2][2], A[2][3], A[3][2], A[3][3])),
              FMul(A[1][2], Det2(A[2][1], A[2][3], A[3][1], A[3][3]))),
         FMul(A[1][3], Det2(A[2][1], A[2][2], A[3][1], A[3][2])))

Nxt(i) == (i % 3) + 1

(* np.linalg.inv of an invertible 3x3 matrix: adjugate over determinant. *)
Inverse(A) ==
    LET det == Det3(A)
        cof(i, j) == Det2(A[Nxt(i)][Nxt(j)], A[Nxt(i)][Nxt(Nxt(j))],
                          A[Nxt(Nxt(i))][Nxt(j)], A[Nxt(Nxt(i))][Nxt(Nxt(j))])
    IN  [i \in 1..3 |-> [j \in 1..3 |-> FDiv(cof(j, i), det)]]

Singular(A) == Det3(A) = Zero

(* self.MI / self.wscale : column j divided by wscale[j]. *)
RowScale_columns(MI, wscale) ==
    [i \in 1..3 |-> [j \in 1..3 |-> FDiv(MI[i][j], wscale[j])]]

(* self.MI / self.wscale[:, np.newaxis] : row i divided by wscale[i]. *)
RowScale(MI, wscale) ==
    [i \in 1..3 |-> [j \in 1..3 |-> FDiv(MI[i][j], wscale[i])]]

----------------------------------------------------------------------------
(* Bounds of the model. *)

\* Rows of the colour-matching tables (81 in the data files the class loads).
GridLen == 2
\* rgb_to_hex is applied to the components k/HexDen, k in 0..HexDen.
HexDen == 4

The(S) == CHOOSE x \in S : TRUE

----------------------------------------------------------------------------
(* The class tables.  The data files are not part of the source; the model *)
(* uses small non-negative tables on a grid of GridLen rows.               *)

cmf1931 == [k \in 1..GridLen |-> <<Q(k, 1), Q(2, 1), Q(GridLen - k, 1)>>]
cmf1964 == [k \in 1..GridLen |-> <<Q(k, 1), Q(1, 1), Q(GridLen + 1 - k, 1)>>]
D65 == [k \in 1..GridLen |-> Q(k, 1)]

\* np.sum of the first n entries of s
RECURSIVE SumUpTo(_, _)
SumUpTo(s, n) == IF n = 0 THEN Zero ELSE FAdd(SumUpTo(s, n - 1), s[n])

\* np.sum(np.multiply(cmf1964[:, 1], D65))
Weight(c64, d65) ==
    The({SumUpTo(p, Len(p)) : p \in {[k \in 1..Len(d65) |-> FMul(c64[k][2], d65[k])]}})

\* Addresses of the class attributes in the heap.
ClassAddrs == [cmf1931 |-> 1, cmf1964 |-> 2, D65 |-> 3, weight |-> 4]

\* An instance attribute that was never assigned.
Unset == 0

----------------------------------------------------------------------------
(* The heap of array objects. *)

NewAddr(h) == CHOOSE a \in 1..(Cardinality(DOMAIN h) + 1) : a \notin DOMAIN h

Store(h, a, v) == [b \in DOMAIN h \cup {a} |-> IF b = a THEN v ELSE h[b]]

FieldNames == {"red", "green", "blue", "white", "cmf", "M", "MI", "wscale", "T"}

FieldAddrs(s) == {s[f] : f \in FieldNames} \ {Unset}

\* What the caller holds after a call: an array by address (shape "xyz": made
\* by xy_to_xyz; "XYZ": by spec_to_xyz; "rgb"; "spec"), a string, a tuple of
\* two floats, or nothing.
NoRet == [kind |-> "none", addr |-> Unset, shape |-> "", str |-> "", pair |-> <<>>]
ArrayRet(a, sh) == [kind |-> "array", addr |-> a, shape |-> sh, str |-> "", pair |-> <<>>]
StrRet(s) == [kind |-> "str", addr |-> Unset, shape |-> "", str |-> s, pair |-> <<>>]
PairRet(p) == [kind |-> "tuple", addr |-> Unset, shape |-> "", str |-> "", pair |-> p]

Roots(sys, r) ==
    {ClassAddrs[c] : c \in DOMAIN ClassAddrs}
      \cup UNION {FieldAddrs(sys[n]) : n \in DOMAIN sys}
      \cup (IF r.kind = "array" THEN {r.addr} ELSE {})

\* Reference counting: an array no name refers to any more is freed.
Collect(h, sys, r) == [a \in DOMAIN h \cap Roots(sys, r) |-> h[a]]

\* The heap and the caller's value once a call has returned r.
Settle(h, sys, r) ==
    IF r.kind = "array" /\ r.addr \notin Roots(sys, NoRet)
    THEN The({[heap |-> [a \in Roots(sys, NoRet) \cup {b} |->
                           IF a = b THEN h[r.addr] ELSE h[a]],
               ret |-> ArrayRet(b, r.shape)] :
                 b \in {NewAddr([a \in Roots(sys, NoRet) |-> 0])}})
    ELSE [heap |-> Collect(h, sys, r), ret |-> r]

----------------------------------------------------------------------------
(* The methods, as functions of values and of the heap. *)

\* if np.any(rgb < 0): w = - np.min(rgb); rgb += w      (with a sign slip)
Desaturate_plus_min(rgb) ==
    IF \E i \in 1..3 : FLt(rgb[i], Zero)
    THEN [i \in 1..3 |-> FAdd(rgb[i], VMin(rgb))]
    ELSE rgb

\* if np.any(rgb < 0): w = - np.min(rgb); rgb += w
Desaturate(rgb) ==
    IF \E i \in 1..3 : FLt(rgb[i], Zero)
    THEN [i \in 1..3 |-> FAdd(rgb[i], FNeg(VMin(rgb)))]
    ELSE rgb

\* normalizing on the sum of the components instead of their maximum
Normalize_by_sum(rgb) ==
    IF ~(\A i \in 1..3 : rgb[i] = Zero)
    THEN [i \in 1..3 |-> FDiv(rgb[i], FAdd(FAdd(rgb[1], rgb[2]), rgb[3]))]
    ELSE rgb

\* if not np.all(rgb==0): rgb /= np.max(rgb)
Normalize(rgb) ==
    IF ~(\A i \in 1..3 : rgb[i] = Zero)
    THEN [i \in 1..3 |-> FDiv(rgb[i], VMax(rgb))]
    ELSE rgb

\* the product written into the argument's own buffer (np.dot(..., out=xyz))
DotResultAddr_in_place(h, xyzAddr) == xyzAddr

\* The array rgb = self.T.dot(xyz) is bound to: a new array.
DotResultAddr(h, xyzAddr) == NewAddr(h)

\* xyz_to_rgb up to the fractional vector: the heap after the in-place
\* updates of rgb, the address of rgb, and rgb as it was after the
\* desaturation.
xyz_to_rgb_array(h, s, xyzAddr) ==
    The({[heap |-> Store(h, DotResultAddr(h, xyzAddr), Normalize(rgb1)),
          rgb |-> DotResultAddr(h, xyzAddr),
          desat |-> rgb1] :
            rgb1 \in {Desaturate(rgb0) : rgb0 \in {Dot(h[s.T], h[xyzAddr])}}})

HexDigit == <<"0", "1", "2", "3", "4", "5", "6", "7",
              "8", "9", "a", "b", "c", "d", "e", "f">>

RECURSIVE HexDigits(_)
HexDigits(k) ==
    IF k < 16 THEN HexDigit[k + 1]
    ELSE HexDigits(k \div 16) \o HexDigit[(k % 16) + 1]

\* '{:02x}'.format(k)
Format02x(k) ==
    IF k < 0 THEN "-" \o HexDigits(-k)
    ELSE IF k < 16 THEN "0" \o HexDigits(k)
    ELSE HexDigits(k)

\* <<q, m>> with k*r = q*d + m and 0 <= m < d, for 0 <= r < d, by doubling
\* (the product k*r is never formed).
RECURSIVE MulDivMod(_, _, _)
MulDivMod(k, r, d) ==
    IF k = 0 THEN <<0, 0>>
    ELSE LET h == MulDivMod(k \div 2, r, d)
             q2 == 2 * h[1] + ((2 * h[2]) \div d)
             m2 == (2 * h[2]) % d
         IN  IF k % 2 = 0 THEN <<q2, m2>>
             ELSE <<q2 + ((m2 + r) \div d), (m2 + r) % d>>

\* 255 * x rounded to the nearest integer, halves away from zero
Times255AsInt_rounded(x) ==
    LET n == Abs(x[1])
        d == x[2]
        qm == MulDivMod(255, n % d, d)
    IN  Sgn(x[1]) * (255 * (n \div d) + qm[1] + (IF 2 * qm[2] >= d THEN 1 ELSE 0))

\* (255 * x).astype(int) of a finite x = n/d: truncation toward zero.
Times255AsInt(x) ==
    LET n == Abs(x[1])
        d == x[2]
    IN  Sgn(x[1]) * (255 * (n \div d) + MulDivMod(255, n % d, d)[1])

\* astype(int) of nan or +-inf is an undefined conversion in C: the build
\* decides (x86-64 gives INT64_MIN for all three; AArch64 saturates, nan -> 0).
Platforms == {"x86_64", "aarch64"}

InvalidCastHex(x, platform) ==
    IF platform = "x86_64" THEN "-8000000000000000"
    ELSE IF x = NaN THEN "00"
    ELSE IF x = PInf THEN "7fffffffffffffff"
    ELSE "-8000000000000000"

HexPair(c, platform) ==
    IF IsFinite(c) THEN Format02x(Times255AsInt(c)) ELSE InvalidCastHex(c, platform)

rgb_to_hex(rgb, platform) ==
    "#" \o HexPair(rgb[1], platform) \o HexPair(rgb[2], platform)
        \o HexPair(rgb[3], platform)

\* spec[:, np.newaxis] * self.cmf broadcasts when the spectrum has as many
\* rows as the table, or one row.
Broadcasts(spec, cmf) == Len(spec) = Len(cmf) \/ Len(spec) = 1

\* np.sum(spec[:, np.newaxis] * self.cmf, axis=0)
RawXYZ(spec, cmf) ==
    [j \in 1..3 |->
        The({SumUpTo(p, Len(p)) :
               p \in {[k \in 1..Len(cmf) |->
                         FMul(IF Len(spec) = 1 THEN spec[1] ELSE spec[k], cmf[k][j])]}})]

\* the division made without the guard on den
spec_to_xyz_unguarded(spec, cmf) ==
    The({[j \in 1..3 |-> FDiv(XYZ[j], SumUpTo(XYZ, 3))] : XYZ \in {RawXYZ(spec, cmf)}})

spec_to_xyz(spec, cmf) ==
    The({IF SumUpTo(XYZ, 3) = Zero THEN XYZ
         ELSE [j \in 1..3 |-> FDiv(XYZ[j], SumUpTo(XYZ, 3))] :
            XYZ \in {RawXYZ(spec, cmf)}})

sepc_to_xy(XYZ) ==
    <<FDiv(XYZ[1], FAdd(FAdd(XYZ[1], XYZ[2]), XYZ[3])),
      FDiv(XYZ[2], FAdd(FAdd(XYZ[1], XYZ[2]), XYZ[3]))>>

xyz_to_spec(xyz, weight, c64) ==
    The({[k \in 1..Len(c64) |->
             FAdd(FAdd(FMul(result[1], c64[k][1]), FMul(result[2], c64[k][2])),
                  FMul(result[3], c64[k][3]))] :
            result \in {[j \in 1..3 |-> FMul(xyz[j], weight)]}})

----------------------------------------------------------------------------
(* The inputs the calls are made with.  The module's own constants (the   *)
(* sRGB, HDTV and SMPTE primaries, the D65 white point) have four-digit    *)
(* numerators whose exact products leave TLC's 32-bit integers, so the      *)
(* model uses chromaticities with small denominators.                      *)

UnitTriangle == << <<One, Zero>>, <<Zero, One>>, <<Zero, Zero>> >>
SkewTriangle == << <<Q(1, 2), Q(1, 4)>>, <<Q(1, 4), Q(1, 2)>>, <<Q(1, 4), Zero>> >>
Collinear == << <<One, Zero>>, <<One, Zero>>, <<Zero, Zero>> >>

PrimaryTriples == {UnitTriangle, SkewTriangle, Collinear}

\* White chromaticities: the equal-energy point, an interior point, a point
\* on the edge x + y = 1 and a point beyond it.
WhiteXY ==
    { <<Q(1, 3), Q(1, 3)>>, <<Q(1, 4), Q(1, 2)>>,
      <<Q(1, 2), Q(1, 2)>>, <<Q(2, 3), Q(2, 3)>> }

CmfVariants == {1964, 1931, 2006}

XYInputs == WhiteXY \cup UNION {{t[1], t[2], t[3]} : t \in PrimaryTriples}

XYZComponents == {Q(-1, 1), Zero, One}

XYZLiterals ==
    {<<a, b, c>> : a \in XYZComponents, b \in XYZComponents, c \in XYZComponents}
      \cup {<<PInf, Zero, Zero>>, <<NaN, One, Zero>>, <<NInf, One, One>>}

HexInputs ==
    {<<a, b, c>> : a, b, c \in {Q(k, HexDen) : k \in 0..HexDen}}
      \cup {<<Q(-1, 2), Zero, Q(3, 2)>>, <<Q(2, 1), Q(2, 1), Q(2, 1)>>,
            <<NaN, PInf, NInf>>}

SpecValues == {Q(-1, 1), Zero, One}

\* Every spectrum on the grid, and the constant spectra of the other lengths.
Spectra ==
    [1..GridLen -> SpecValues]
      \cup {[k \in 1..n |-> v] : n \in (0..(GridLen + 1)) \ {GridLen}, v \in SpecValues}

OutFmts == {"none", "html"}

\* The names the module binds instances to, in the order it binds them.
Names == <<"cs1", "cs2">>

----------------------------------------------------------------------------
(* The state machine. *)

Init ==
    /\ heap = [a \in 1..4 |->
                 IF a = ClassAddrs.cmf1931 THEN cmf1931
                 ELSE IF a = ClassAddrs.cmf1964 THEN cmf1964
                 ELSE IF a = ClassAddrs.D65 THEN D65
                 ELSE Weight(cmf1964, D65)]
    /\ systems = <<>>
    /\ ret = NoRet
    /\ outcome = "ok"
    /\ last = [op |-> "import", sys |-> "None", arg |-> <<>>, fmt |-> "", ref |-> Unset,
               mid |-> <<>>]

VecFields == {"red", "green", "blue", "white", "wscale"}

\* The XYZ vectors a caller can pass by reference: the array it got from
\* xy_to_xyz and the arrays of instance n in the fields fs.
VecAddrs(n, fs) ==
    {systems[n][f] : f \in fs}
      \cup (IF ret.kind = "array" /\ ret.shape = "xyz" THEN {ret.addr} ELSE {})

\* The rgb array the caller holds, which it can pass to rgb_to_hex.
RgbAddrs == IF ret.kind = "array" /\ ret.shape = "rgb" THEN {ret.addr} ELSE {}

\* The record of a call: the method, the instance, the argument's value,
\* out_fmt, and the address of the argument when it is an array the caller
\* or an instance holds (Unset for an array built for the call).
Call(op, n, arg, fmt, ref) == [op |-> op, sys |-> n, arg |-> arg, fmt |-> fmt, ref |-> ref]

Logged(call, mid) ==
    [op |-> call.op, sys |-> call.sys, arg |-> call.arg, fmt |-> call.fmt,
     ref |-> call.ref, mid |-> mid]

\* The call returns r: the arrays of the call that nothing refers to any more
\* are freed, and an array only the caller holds is named by the least
\* address not in use (addresses are names; the contents are what is kept).
Return(call, mid, h, r) ==
    /\ \E c \in {Settle(h, systems, r)} : ret' = c.ret /\ heap' = c.heap
    /\ outcome' = "ok"
    /\ last' = Logged(call, mid)
    /\ UNCHANGED systems

\* The call raises exc: nothing is returned, and the arrays the call built
\* are dropped.
Raise(call, exc) ==
    /\ outcome' = exc
    /\ ret' = NoRet
    /\ heap' = Collect(heap, systems, NoRet)
    /\ last' = Logged(call, <<>>)
    /\ UNCHANGED systems

\* ColourSystem.xy_to_xyz(None, x, y)
XyToXyz(x, y) ==
    \E a \in {NewAddr(heap)} :
       Return(Call("xy_to_xyz", "None", <<x, y>>, "", Unset), <<>>,
              Store(heap, a, xyz_from_xy(x, y)), ArrayRet(a, "xyz"))

\* name = ColourSystem(red, green, blue, white, cmf), white being the array
\* the caller got from xy_to_xyz
Construct(name, t, cmf) ==
    /\ name \notin DOMAIN systems
    /\ \A k \in 1..Len(Names) : Names[k] = name => \A j \in 1..(k - 1) : Names[j] \in DOMAIN systems
    /\ ret.kind = "array" /\ ret.shape = "xyz"
    /\ \E aRed \in {NewAddr(heap)} :
       \E h1 \in {Store(heap, aRed, xyz_from_xy(t[1][1], t[1][2]))} :
       \E aGreen \in {NewAddr(h1)} :
       \E h2 \in {Store(h1, aGreen, xyz_from_xy(t[2][1], t[2][2]))} :
       \E aBlue \in {NewAddr(h2)} :
       \E h3 \in {Store(h2, aBlue, xyz_from_xy(t[3][1], t[3][2]))} :
       \E aCmf \in {IF cmf = 1964 THEN ClassAddrs.cmf1964
                    ELSE IF cmf = 1931 THEN ClassAddrs.cmf1931
                    ELSE Unset} :
       \E aM \in {NewAddr(h3)} :
       \E h4 \in {Store(h3, aM, ChromaticityMatrix(h3[aRed], h3[aGreen], h3[aBlue]))} :
          IF Singular(h4[aM])
          THEN Raise(Call("construct", name, <<t, cmf>>, "", ret.addr), "LinAlgError")
          ELSE \E aMI \in {NewAddr(h4)} :
               \E h5 \in {Store(h4, aMI, Inverse(h4[aM]))} :
               \E aW \in {NewAddr(h5)} :
               \E h6 \in {Store(h5, aW, Dot(h5[aMI], h5[ret.addr]))} :
               \E aT \in {NewAddr(h6)} :
               \E h7 \in {Store(h6, aT, RowScale(h6[aMI], h6[aW]))} :
               \E self \in {[red |-> aRed, green |-> aGreen, blue |-> aBlue,
                             white |-> ret.addr, cmf |-> aCmf, M |-> aM,
                             MI |-> aMI, wscale |-> aW, T |-> aT]} :
                  /\ systems' = [m \in DOMAIN systems \cup {name} |->
                                   IF m = name THEN self ELSE systems[m]]
                  /\ heap' = Collect(h7, systems', ret)
                  /\ outcome' = "ok"
                  /\ last' = Logged(Call("construct", name, <<t, cmf>>, "", ret.addr),
                                     <<>>)
                  /\ UNCHANGED ret

\* The tail shared by xyz_to_rgb, xy_to_rgb and spec_to_rgb: h holds the
\* argument array at xyzAddr.
RgbCall(call, h, xyzAddr, mid) ==
    \E res \in {xyz_to_rgb_array(h, systems[call.sys], xyzAddr)} :
       IF call.fmt = "html"
       THEN \E platform \in Platforms :
               Return(call, <<res.desat>> \o mid, res.heap,
                      StrRet(rgb_to_hex(res.heap[res.rgb], platform)))
       ELSE Return(call, <<res.desat>> \o mid, res.heap, ArrayRet(res.rgb, "rgb"))

XyzToRgbRef(n, a, fmt) ==
    RgbCall(Call("xyz_to_rgb", n, heap[a], fmt, a), heap, a, <<>>)

XyzToRgbLit(n, xyz, fmt) ==
    \E a \in {NewAddr(heap)} :
    \E h \in {Store(heap, a, xyz)} :
       RgbCall(Call("xyz_to_rgb", n, xyz, fmt, Unset), h, a, <<>>)

XyToRgb(n, x, y, fmt) ==
    \E a \in {NewAddr(heap)} :
    \E h \in {Store(heap, a, xyz_from_xy(x, y))} :
       RgbCall(Call("xy_to_rgb", n, <<x, y>>, fmt, Unset), h, a, <<>>)

\* spec_to_xyz, and the two methods that start by calling it
SpecCall(call) ==
    IF systems[call.sys].cmf = Unset THEN Raise(call, "AttributeError")
    ELSE IF ~Broadcasts(call.arg, heap[systems[call.sys].cmf]) THEN Raise(call, "ValueError")
    ELSE \E a \in {NewAddr(heap)} :
         \E raw \in {RawXYZ(call.arg, heap[systems[call.sys].cmf])} :
         \E h \in {Store(heap, a, spec_to_xyz(call.arg, heap[systems[call.sys].cmf]))} :
            IF call.op = "spec_to_xyz"
            THEN Return(call, <<raw>>, h, ArrayRet(a, "XYZ"))
            ELSE IF call.op = "sepc_to_xy"
            THEN Return(call, <<raw>>, h, PairRet(sepc_to_xy(h[a])))
            ELSE RgbCall(call, h, a, <<raw>>)

SpecToXyz(n, spec) == SpecCall(Call("spec_to_xyz", n, spec, "", Unset))

SpecToRgb(n, spec, fmt) == SpecCall(Call("spec_to_rgb", n, spec, fmt, Unset))

SepcToXy(n, spec) == SpecCall(Call("sepc_to_xy", n, spec, "", Unset))

SpecOut(call, xyz) ==
    \E a \in {NewAddr(heap)} :
       Return(call, <<>>,
              Store(heap, a, xyz_to_spec(xyz, heap[ClassAddrs.weight],
                                         heap[ClassAddrs.cmf1964])),
              ArrayRet(a, "spec"))

XyzToSpecRef(n, a) == SpecOut(Call("xyz_to_spec", n, heap[a], "", a), heap[a])

XyzToSpecLit(n, xyz) == SpecOut(Call("xyz_to_spec", n, xyz, "", Unset), xyz)

XyToSpec(n, x, y) == SpecOut(Call("xy_to_spec", n, <<x, y>>, "", Unset), xyz_from_xy(x, y))

\* rgb_to_hex reads no attribute of self: n is an instance or "None"
RgbToHex(n, rgb) ==
    \E platform \in Platforms :
       Return(Call("rgb_to_hex", n, rgb, "", Unset), <<>>, heap,
              StrRet(rgb_to_hex(rgb, platform)))

----------------------------------------------------------------------------
(* Specifications.  Spec makes every call, on two instances, with a few    *)
(* inputs each; SpecRgb, SpecSpectrum and SpecHex make the calls of one    *)
(* family with all the inputs above.                                       *)

FewXY == {<<Q(1, 3), Q(1, 3)>>}
FewXYZ == {<<One, Q(-1, 1), Zero>>}
FewFields == {"red", "white"}
FewRgb == {<<One, Q(1, 2), Zero>>}
FewSpectra == {[k \in 1..GridLen |-> Zero], [k \in 1..GridLen |-> One], <<One>>}

Next ==
    \/ \E xy \in FewXY : XyToXyz(xy[1], xy[2])
    \/ \E k \in 1..Len(Names), t \in {UnitTriangle, Collinear}, cmf \in {1964, 2006} :
          Construct(Names[k], t, cmf)
    \/ \E n \in DOMAIN systems : \E a \in VecAddrs(n, FewFields), fmt \in OutFmts : XyzToRgbRef(n, a, fmt)
    \/ \E n \in DOMAIN systems, xyz \in FewXYZ, fmt \in OutFmts : XyzToRgbLit(n, xyz, fmt)
    \/ \E n \in DOMAIN systems, xy \in FewXY, fmt \in OutFmts : XyToRgb(n, xy[1], xy[2], fmt)
    \/ \E n \in DOMAIN systems : \E a \in VecAddrs(n, FewFields) : XyzToSpecRef(n, a)
    \/ \E n \in DOMAIN systems, xyz \in FewXYZ : XyzToSpecLit(n, xyz)
    \/ \E n \in DOMAIN systems, xy \in FewXY : XyToSpec(n, xy[1], xy[2])
    \/ \E n \in DOMAIN systems, rgb \in FewRgb : RgbToHex(n, rgb)
    \/ \E n \in DOMAIN systems : \E a \in VecAddrs(n, FewFields) \cup RgbAddrs : RgbToHex(n, heap[a])
    \/ \E n \in DOMAIN systems, spec \in FewSpectra : SpecToXyz(n, spec)
    \/ \E n \in DOMAIN systems, spec \in FewSpectra, fmt \in OutFmts : SpecToRgb(n, spec, fmt)
    \/ \E n \in DOMAIN systems, spec \in FewSpectra : SepcToXy(n, spec)

Spec == Init /\ [][Next]_vars

NextRgb ==
    \/ \E xy \in XYInputs : XyToXyz(xy[1], xy[2])
    \/ \E t \in PrimaryTriples : Construct("cs1", t, 1964)
    \/ \E n \in DOMAIN systems : \E a \in VecAddrs(n, VecFields), fmt \in OutFmts : XyzToRgbRef(n, a, fmt)
    \/ \E n \in DOMAIN systems, xyz \in XYZLiterals, fmt \in OutFmts : XyzToRgbLit(n, xyz, fmt)
    \/ \E n \in DOMAIN systems, xy \in XYInputs, fmt \in OutFmts : XyToRgb(n, xy[1], xy[2], fmt)

SpecRgb == Init /\ [][NextRgb]_vars

NextSpectrum ==
    \/ \E xy \in {<<Q(1, 3), Q(1, 3)>>} : XyToXyz(xy[1], xy[2])
    \/ \E cmf \in CmfVariants : Construct("cs1", UnitTriangle, cmf)
    \/ \E n \in DOMAIN systems, spec \in Spectra : SpecToXyz(n, spec)
    \/ \E n \in DOMAIN systems, spec \in Spectra, fmt \in OutFmts : SpecToRgb(n, spec, fmt)
    \/ \E n \in DOMAIN systems, spec \in Spectra : SepcToXy(n, spec)

SpecSpectrum == Init /\ [][NextSpectrum]_vars

NextHex == \E rgb \in HexInputs : RgbToHex("None", rgb)

SpecHex == Init /\ [][NextHex]_vars


\* ---------------------------------------------------------------------------
\* Properties.  `last` records the call that produced the current state.

RgbOps == {"xyz_to_rgb", "xy_to_rgb", "spec_to_rgb"}

\* The call returned an rgb array (out_fmt was not 'html').
ReturnedRgb == last.op \in RgbOps /\ outcome = "ok" /\ ret.kind = "array"

\* The XYZ vector the call handed to the matrix product.
XyzOfCall ==
    IF last.op = "xy_to_rgb" THEN xyz_from_xy(last.arg[1], last.arg[2])
    ELSE IF last.op = "spec_to_rgb"
    THEN spec_to_xyz(last.arg, heap[systems[last.sys].cmf])
    ELSE last.arg

Field(f) == heap[systems[last.sys][f]]

MatFinite(A) == \A i \in 1..3 : VecFinite(A[i])

NoZeroScale == \A i \in 1..3 : Field("wscale")[i] # Zero

UnitVec(k) == [i \in 1..3 |-> IF i = k THEN One ELSE Zero]

Primaries == <<"red", "green", "blue">>

\* C1: for every finite XYZ input, no component of the array xyz_to_rgb
\* returns is negative.
C1_GamutInvariant ==
    (ReturnedRgb /\ VecFinite(XyzOfCall))
        => \A i \in 1..3 : ~FLt(heap[ret.addr][i], Zero)

\* The product T.xyz had a negative component and the call returned a
\* finite array: desaturation acted.
C1_Witness ==
    /\ ReturnedRgb /\ VecFinite(XyzOfCall)
    /\ \E i \in 1..3 : FLt(Dot(Field("T"), XyzOfCall)[i], Zero)
    /\ VecFinite(heap[ret.addr])

\* C2 as written: whenever xyz_to_rgb returns an array that is not all
\* zero its largest component is exactly 1 and every component lies in
\* [0, 1]; the all-zero array is returned only when the desaturated vector
\* is all zero.
C2_AsWritten ==
    ReturnedRgb =>
        /\ heap[ret.addr] # ZeroVec
              => /\ VMax(heap[ret.addr]) = One
                 /\ \A i \in 1..3 : FLe(Zero, heap[ret.addr][i])
                                    /\ FLe(heap[ret.addr][i], One)
        /\ heap[ret.addr] = ZeroVec => last.mid[1] = ZeroVec

\* C2, amended: whenever the rgb vector after the desaturation step has only
\* finite components, as it has for every finite XYZ input on an instance
\* whose transform T has only finite entries, the returned array is all zero
\* exactly when that vector is all zero, and otherwise its largest component
\* is exactly 1 and every component lies in [0, 1].
C2_NormalizationInvariant ==
    ReturnedRgb =>
        /\ (VecFinite(XyzOfCall) /\ MatFinite(Field("T"))) => VecFinite(last.mid[1])
        /\ VecFinite(last.mid[1])
              => /\ heap[ret.addr] # ZeroVec
                    => /\ VMax(heap[ret.addr]) = One
                       /\ \A i \in 1..3 : FLe(Zero, heap[ret.addr][i])
                                          /\ FLe(heap[ret.addr][i], One)
                 /\ heap[ret.addr] = ZeroVec <=> last.mid[1] = ZeroVec

\* The division by the maximum changed a finite desaturated vector.
C2_Witness ==
    /\ ReturnedRgb /\ VecFinite(XyzOfCall) /\ MatFinite(Field("T"))
    /\ last.mid[1] # ZeroVec
    /\ last.mid[1] # heap[ret.addr]
    /\ VMax(heap[ret.addr]) = One

\* The call converted the instance's k-th primary.
OfPrimary(k) == ReturnedRgb /\ XyzOfCall = Field(Primaries[k])

\* C5 as written: on every constructed instance each primary maps to its
\* own unit vector.
C5_AsWritten ==
    \A k \in 1..3 : OfPrimary(k) => heap[ret.addr] = UnitVec(k)

\* C5, amended: each primary maps to its own unit vector on every instance
\* whose wscale has no zero component and a positive component for that
\* primary.
C5_PrimaryRoundTrip ==
    \A k \in 1..3 :
        (OfPrimary(k) /\ NoZeroScale /\ FLt(Zero, Field("wscale")[k]))
            => heap[ret.addr] = UnitVec(k)

\* A primary of an instance whose primaries are not the unit triangle was
\* converted.
C5_Witness ==
    \E k \in 1..3 :
        /\ OfPrimary(k) /\ NoZeroScale /\ FLt(Zero, Field("wscale")[k])
        /\ Field("M") # ChromaticityMatrix(UnitVec(1), UnitVec(2), UnitVec(3))
        /\ heap[ret.addr] = UnitVec(k)

\* The call converted the instance's white point.
OfWhite == last.op \in RgbOps /\ outcome = "ok" /\ XyzOfCall = Field("white")

\* C6 as written: on every constructed instance the white point maps to
\* (1, 1, 1), and to '#ffffff' with out_fmt='html'.
C6_AsWritten ==
    OfWhite => IF ret.kind = "str" THEN ret.str = "#ffffff"
               ELSE heap[ret.addr] = <<One, One, One>>

\* C6, amended: the white point maps to (1, 1, 1), and to '#ffffff' with
\* out_fmt='html', on every instance whose wscale has no zero component.
C6_WhiteMapsToItself ==
    (OfWhite /\ NoZeroScale)
        => IF ret.kind = "str" THEN ret.str = "#ffffff"
           ELSE heap[ret.addr] = <<One, One, One>>

\* The white point of an instance with unequal wscale components was
\* converted to the html string.
C6_Witness ==
    /\ OfWhite /\ NoZeroScale
    /\ Field("wscale")[1] # Field("wscale")[2]
    /\ ret.kind = "str" /\ ret.str = "#ffffff"

\* C3 as written: constructing with a cmf other than 1964 and 1931 ends in
\* an error, and no instance exists whose cmf attribute is unset.
C3_AsWritten ==
    /\ (last.op = "construct" /\ last.arg[2] \notin {1964, 1931}) => outcome # "ok"
    /\ \A n \in DOMAIN systems : systems[n].cmf # Unset

\* C4 as written: spec_to_xyz on a spectrum whose length is not the grid
\* length ends in an error; lengths 0 and 1 included.
C4_AsWritten ==
    (last.op = "spec_to_xyz" /\ Len(last.arg) # GridLen) => outcome # "ok"

\* spec_to_xyz returned for a spectrum of the grid's length.
ReturnedXYZ ==
    last.op = "spec_to_xyz" /\ outcome = "ok" /\ Len(last.arg) = GridLen

RawSum == FAdd(FAdd(last.mid[1][1], last.mid[1][2]), last.mid[1][3])

RetSum == FAdd(FAdd(heap[ret.addr][1], heap[ret.addr][2]), heap[ret.addr][3])

\* C8 as written: when the raw X+Y+Z is zero spec_to_xyz returns the finite
\* all-zero vector, and otherwise the raw vector divided by the sum, whose
\* components sum to 1.
C8_AsWritten ==
    ReturnedXYZ =>
        IF RawSum = Zero
        THEN heap[ret.addr] = ZeroVec
        ELSE /\ heap[ret.addr] = [j \in 1..3 |-> FDiv(last.mid[1][j], RawSum)]
             /\ RetSum = One

\* C8, amended: when the raw X+Y+Z is zero spec_to_xyz returns the raw
\* vector undivided, which is finite and is all zero for the all-zero
\* spectrum; otherwise it returns the raw vector divided by the sum, whose
\* components sum to 1.
C8_ZeroSumGuard ==
    ReturnedXYZ =>
        IF RawSum = Zero
        THEN /\ heap[ret.addr] = last.mid[1]
             /\ VecFinite(heap[ret.addr])
             /\ (\A k \in 1..GridLen : last.arg[k] = Zero) => heap[ret.addr] = ZeroVec
        ELSE /\ heap[ret.addr] = [j \in 1..3 |-> FDiv(last.mid[1][j], RawSum)]
             /\ RetSum = One

\* A spectrum that is not all zero had a raw sum of zero, and the vector
\* came back undivided.
C8_Witness ==
    /\ ReturnedXYZ /\ RawSum = Zero
    /\ last.mid[1] # ZeroVec
    /\ heap[ret.addr] = last.mid[1]

\* C9 as written: sepc_to_xy on a spectrum whose XYZ sums to zero ends in
\* an error; it returns no (x, y) pair.
C9_AsWritten ==
    (last.op = "sepc_to_xy" /\ Len(last.arg) = GridLen
        /\ systems[last.sys].cmf # Unset /\ RawSum = Zero)
        => outcome # "ok"

InUnitInterval(c) == FLe(Zero, c) /\ FLe(c, One)

\* The two lowercase hex digits of the one integer r with r <= 255*c < r+1.
FloorPair(c) ==
    The({HexDigit[(r \div 16) + 1] \o HexDigit[(r % 16) + 1] :
            r \in {k \in 0..255 : k * c[2] <= 255 * c[1] /\ 255 * c[1] < (k + 1) * c[2]}})

\* C7: for every rgb with its three components in [0, 1], rgb_to_hex returns
\* '#' followed by six lowercase hex digits, each pair being floor(255*c) of
\* its component: 1 gives 'ff', 0 gives '00', 1/2 gives '7f'.
C7_HexEncoding ==
    (last.op = "rgb_to_hex" /\ \A i \in 1..3 : InUnitInterval(last.arg[i]))
        => /\ ret.str = "#" \o FloorPair(last.arg[1]) \o FloorPair(last.arg[2])
                            \o FloorPair(last.arg[3])
           /\ last.arg = <<One, Zero, Q(1, 2)>> => ret.str = "#ff007f"

\* rgb_to_hex was applied to (1, 0, 1/2).
C7_Witness ==
    /\ last.op = "rgb_to_hex"
    /\ last.arg = <<One, Zero, Q(1, 2)>>
    /\ ret.str = "#ff007f"

\* What the caller got: the contents of a returned array, or the string or
\* the pair.
RetValue ==
    IF ret.kind = "array" THEN heap[ret.addr]
    ELSE IF ret.kind = "str" THEN <<ret.str>>
    ELSE ret.pair

\* The step leaves every instance, the arrays its attributes name and the
\* class tables as they were.
AttributesKept ==
    /\ \A n \in DOMAIN systems :
          /\ n \in DOMAIN systems'
          /\ systems'[n] = systems[n]
          /\ \A a \in FieldAddrs(systems[n]) : a \in DOMAIN heap' /\ heap'[a] = heap[a]
    /\ \A c \in DOMAIN ClassAddrs :
          ClassAddrs[c] \in DOMAIN heap' /\ heap'[ClassAddrs[c]] = heap[ClassAddrs[c]]

\* The step repeats the call before it.
SameCall ==
    /\ last.op \notin {"import", "construct"}
    /\ last'.op = last.op /\ last'.sys = last.sys /\ last'.fmt = last.fmt
    /\ last'.ref = last.ref /\ last'.arg = last.arg

\* C10: no call changes an attribute of an instance (red, green, blue, white,
\* cmf, M, MI, wscale, T) or a class table (cmf1931, cmf1964, D65, weight),
\* and a call repeated with the same input has the same outcome and result.
C10_Immutability ==
    [][AttributesKept /\ (SameCall => outcome' = outcome /\ RetValue' = RetValue)]_vars

\* xyz_to_rgb was handed an instance's own white array, while a second
\* instance exists, and returned an array with other contents.
C10_Witness ==
    /\ Len(Names) = Cardinality(DOMAIN systems)
    /\ last.op = "xyz_to_rgb" /\ outcome = "ok" /\ ret.kind = "array"
    /\ last.ref = systems[last.sys].white
    /\ heap[ret.addr] # heap[last.ref]
====
